---- MODULE Spec2Model ----
(***************************************************************************)
(* A state-machine model of src/MT4fb.ipynb: pad_sequences, the            *)
(* MultiHeadAttention constructor, Transformer.forward, train_model,       *)
(* greedy_decode and translate_validation_data.                            *)
(*                                                                         *)
(* Tensors of reals are modelled over the residues 0..ModBase-1: an        *)
(* embedding vector is one residue, a sequence of vectors is a TLA+        *)
(* sequence of residues, and every layer keeps the data flow of the code   *)
(* (what is computed from what, position by position), with + and * taken  *)
(* modulo ModBase.  TLA+ sequences are indexed from 1: position i of the   *)
(* code is index i+1 here.                                                 *)
(***************************************************************************)
EXTENDS Integers, Sequences, FiniteSets, TLC

\* ---------------------------------------------------------------- bounds
ModBase == 5
VocabSize == 5
NumLayers == 2
MaxSrcLen == 2
MaxMaxLen == 3
MaxPadSeqLen == 3
MaxPadLen == 3
MaxEmbed == 6
MaxHeads == 3
MaxTgtLen == 2
MaxEpochs == 2
MaxBatches == 2
MaxSentences == 2

\* ------------------------------------------------------ program constants
PAD == 0
UNK == 1
BOS == 2
EOS == 3

Vocab == 0..(VocabSize - 1)

\* ------------------------------------------------------------ the network
\* Every intermediate tensor is bound as the element of a one-element set, so that
\* it is computed once where it is made and not again wherever it is read.
Only(S) == CHOOSE r \in S : TRUE

\* a tensor of n positions, materialised position by position
RECURSIVE Tensor(_, _)
Tensor(f, n) == IF n = 0 THEN <<>> ELSE Append(Tensor(f, n - 1), f[n])

\* nn.Embedding: a lookup table from token id to vector
Embedding(table, tokens) == Tensor([i \in 1..Len(tokens) |-> table[tokens[i]]], Len(tokens))

\* PositionalEncoding.pe: a fixed function of the position alone
pe(pos) == (pos + 1) % ModBase

\* PositionalEncoding.forward: x + pe[:, :x.size(1), :]
PositionalEncoding(x) == Tensor([i \in 1..Len(x) |-> (x[i] + pe(i - 1)) % ModBase], Len(x))

RECURSIVE SumTo(_, _)
SumTo(f, n) == IF n = 0 THEN 0 ELSE f[n] + SumTo(f, n - 1)

\* ScaledDotProductAttention.forward with mask=None: every query position is
\* scored against every key position, the scores weight the values
ScaledDotProductAttention(query, key, value) ==
    Tensor([i \in 1..Len(query) |->
               SumTo([j \in 1..Len(key) |-> ((query[i] * key[j]) % ModBase) * value[j]],
                     Len(key)) % ModBase],
           Len(query))

\* nn.Linear on every position
Linear(w, x) == Tensor([i \in 1..Len(x) |-> (w * x[i] + 1) % ModBase], Len(x))

\* MultiHeadAttention.forward
MultiHeadAttentionForward(w, query, key, value) ==
    Only({ Linear(w, attention_output) :
             attention_output \in
               { ScaledDotProductAttention(q, k, v) :
                   q \in {Linear(w, query)}, k \in {Linear(w, key)}, v \in {Linear(w, value)} } })

\* nn.LayerNorm: position-wise
LayerNorm(x) == Tensor([i \in 1..Len(x) |-> (2 * x[i] + 1) % ModBase], Len(x))

\* FeedForward.forward: linear2(dropout(relu(linear1(x)))), position-wise
FeedForward(w, x) == Only({ Linear(w, h) : h \in {Linear(w, x)} })

\* x + y, position by position
Residual(x, y) == Tensor([i \in 1..Len(x) |-> (x[i] + y[i]) % ModBase], Len(x))

\* TransformerBlock.forward(query, key, value, mask=None)
TransformerBlock(layer, query, key, value) ==
    Only({ Only({ Only({ LayerNorm(Residual(x, ff_output)) :
                           ff_output \in {FeedForward(layer.feed_forward, x)} }) :
                    x \in {LayerNorm(Residual(query, attention_output))} }) :
             attention_output \in
               {MultiHeadAttentionForward(layer.attention, query, key, value)} })

\* one call layer(query, key, value, mask) of a block in Transformer.forward: which
\* block of which stack, what it was given and what it gave
BlockCall(stack, n, layer, query, key, value) ==
    [stack |-> stack, layer |-> n, query |-> query, key |-> key, value |-> value,
     out |-> TransformerBlock(layer, query, key, value)]

\* what a loop over blocks leaves in its variable: the output of its last call, or
\* the variable as it was when there was no call
CallsOut(calls, x) == IF calls = <<>> THEN x ELSE calls[Len(calls)].out

\* mutant: every encoder block runs on the embedded source
RECURSIVE EncoderCallsFromSource(_, _, _)
EncoderCallsFromSource(layers, n, src) ==
    IF n > Len(layers) THEN <<>>
    ELSE Only({ <<c>> \o EncoderCallsFromSource(layers, n + 1, src) :
                  c \in {BlockCall("encoder", n, layers[n], src, src, src)} })

\* for layer in self.encoder_layers: src = layer(src, src, src, src_mask):
\* the calls made from block n on, in the order they are made
RECURSIVE EncoderCalls(_, _, _)
EncoderCalls(layers, n, src) ==
    IF n > Len(layers) THEN <<>>
    ELSE Only({ <<c>> \o EncoderCalls(layers, n + 1, c.out) :
                  c \in {BlockCall("encoder", n, layers[n], src, src, src)} })

\* src after the encoder loop
EncoderStack(layers, n, src) ==
    Only({ CallsOut(calls, src) : calls \in {EncoderCalls(layers, n, src)} })

\* mutant: the decoder blocks attend to the target itself
RECURSIVE DecoderCallsOnTarget(_, _, _, _)
DecoderCallsOnTarget(layers, n, tgt, src) ==
    IF n > Len(layers) THEN <<>>
    ELSE Only({ <<c>> \o DecoderCallsOnTarget(layers, n + 1, c.out, src) :
                  c \in {BlockCall("decoder", n, layers[n], tgt, tgt, tgt)} })

\* for layer in self.decoder_layers: tgt = layer(tgt, src, src, tgt_mask):
\* the calls made from block n on, in the order they are made
RECURSIVE DecoderCalls(_, _, _, _)
DecoderCalls(layers, n, tgt, src) ==
    IF n > Len(layers) THEN <<>>
    ELSE Only({ <<c>> \o DecoderCalls(layers, n + 1, c.out, src) :
                  c \in {BlockCall("decoder", n, layers[n], tgt, src, src)} })

\* tgt after the decoder loop
DecoderStack(layers, n, tgt, src) ==
    Only({ CallsOut(calls, tgt) : calls \in {DecoderCalls(layers, n, tgt, src)} })

\* self.fc_out(tgt): the logits over the vocabulary at every position
Project(fc_out, x) ==
    Tensor([i \in 1..Len(x) |->
               [v \in Vocab |-> (x[i] * fc_out.weight[v] + fc_out.bias[v]) % ModBase]],
           Len(x))

\* Transformer.forward(src, tgt) up to fc_out: the embedded source and target, and
\* the calls of the blocks in the order the two loops make them
ForwardCalls(m, src, tgt) ==
    Only({ Only({ [src0 |-> s0, tgt0 |-> t0,
                   calls |-> enc \o DecoderCalls(m.decoder_layers, 1, t0, CallsOut(enc, s0))] :
                    enc \in {EncoderCalls(m.encoder_layers, 1, s0)} }) :
             s0 \in {PositionalEncoding(Embedding(m.src_embedding, src))},
             t0 \in {PositionalEncoding(Embedding(m.tgt_embedding, tgt))} })

\* Transformer.forward(src, tgt): logits[i][v] for every target position i
Forward(m, src, tgt) ==
    Only({ Project(m.fc_out, CallsOut(f.calls, f.tgt0)) : f \in {ForwardCalls(m, src, tgt)} })

\* Transformer.__init__: the parameter values a model may hold
OneHot(t) == [v \in Vocab |-> IF v = t THEN 1 ELSE 0]
Zeros == [v \in Vocab |-> 0]
Ramp(a) == [v \in Vocab |-> (a * v + 1) % ModBase]

MakeModel(e, a, w, b) ==
    [src_embedding  |-> Ramp(e),
     tgt_embedding  |-> Ramp(e + 1),
     encoder_layers |-> [l \in 1..NumLayers |->
                            [attention |-> a + l - 1, feed_forward |-> a + l + 2]],
     decoder_layers |-> [l \in 1..NumLayers |->
                            [attention |-> a + l + 1, feed_forward |-> a + l + 2]],
     fc_out         |-> [weight |-> w, bias |-> b]]

ModelSpace ==
    { MakeModel(e, a, w, b) :
        e \in 1..1, a \in 1..2,
        w \in {Zeros, Ramp(1), Ramp(2)},
        b \in {Zeros, OneHot(EOS), OneHot(UNK)} }

\* tensor.argmax(dim=-1): the index of the first maximal value
ArgMax(logits) ==
    CHOOSE v \in Vocab :
        /\ \A u \in Vocab : logits[u] <= logits[v]
        /\ \A u \in Vocab : logits[u] = logits[v] => v <= u

RECURSIVE SeqsUpTo(_, _)
SeqsUpTo(S, n) ==
    IF n = 0 THEN {<<>>}
    ELSE LET shorter == SeqsUpTo(S, n - 1)
         IN  shorter \cup {Append(s, x) : s \in {t \in shorter : Len(t) = n - 1}, x \in S}

\* the source sentences handed to greedy_decode
SrcTokens == {UNK, VocabSize - 1}
Sources == SeqsUpTo(SrcTokens, MaxSrcLen)

VARIABLES pc, model, dec, pad, mha, train, trans

vars == <<pc, model, dec, pad, mha, train, trans>>

\* mutant: the loop runs once more than range(n) allows
RangeHasNextInclusive(i, n) == i <= n

\* for _ in range(n), for x in iterable of n items: i iterations are done, is there another
RangeHasNext(i, n) == i < n

Min(a, b) == IF a < b THEN a ELSE b
Max(a, b) == IF a < b THEN b ELSE a

\* ---------------------------------------------------------- pad_sequences
PadIdle == [sequences |-> <<>>, maxlen |-> 0, result |-> <<>>]

\* [padding_value] * n: the empty list when n <= 0
Repeat(x, n) == [k \in 1..n |-> x]

\* seq[:k], Python slicing: a negative k counts from the end
SliceTo(seq, k) ==
    IF k >= 0 THEN SubSeq(seq, 1, Min(k, Len(seq)))
    ELSE SubSeq(seq, 1, Max(0, Len(seq) + k))

\* mutant: a long sequence is returned as it is, not cut
PadOneNoTruncation(seq, maxlen, padding_value) ==
    IF Len(seq) < maxlen
    THEN seq \o Repeat(padding_value, maxlen - Len(seq))
    ELSE seq

\* seq + [padding_value] * (maxlen - len(seq)) if len(seq) < maxlen else seq[:maxlen]
PadOne(seq, maxlen, padding_value) ==
    IF Len(seq) < maxlen
    THEN seq \o Repeat(padding_value, maxlen - Len(seq))
    ELSE SliceTo(seq, maxlen)

\* pad_sequences(sequences, maxlen, padding_value=0)
pad_sequences(sequences, maxlen) ==
    [k \in 1..Len(sequences) |-> PadOne(sequences[k], maxlen, 0)]

\* the token lists a tokenizer hands to pad_sequences
PadTokens == {PAD, UNK}
PadInputs == SeqsUpTo(PadTokens, MaxPadSeqLen)

\* encode_sentences: tokenized = [...]; return pad_sequences(tokenized, maxlen=max_len)
CallPadSequences ==
    /\ pc = "idle"
    /\ \E tokenized \in {<<a>> : a \in PadInputs} \cup {<<a, b>> : a, b \in PadInputs},
          max_len \in 0..MaxPadLen :
          pad' = [sequences |-> tokenized, maxlen |-> max_len,
                  result |-> pad_sequences(tokenized, max_len)]
    /\ pc' = "pad_done"
    /\ UNCHANGED <<model, dec, mha, train, trans>>

\* ------------------------------------------- MultiHeadAttention.__init__
\* object: the set holding the object built, empty when none is
MhaIdle == [embed_size |-> 0, num_heads |-> 1, object |-> {}, error |-> "none"]

\* mutant: the assertion is gone
DivisibilityAssertSkipped(embed_size, num_heads) == TRUE

\* assert embed_size % num_heads == 0
DivisibilityAssert(embed_size, num_heads) == embed_size % num_heads = 0

\* MultiHeadAttention(embed_size, num_heads): the object built, or the error raised
MultiHeadAttentionInit(embed_size, num_heads) ==
    IF num_heads = 0
    THEN [object |-> {}, error |-> "ZeroDivisionError"]
    ELSE IF ~DivisibilityAssert(embed_size, num_heads)
    THEN [object |-> {}, error |-> "AssertionError"]
    ELSE [object |-> {[num_heads |-> num_heads,
                      head_dim |-> embed_size \div num_heads,
                      query_linear |-> <<embed_size, embed_size>>,
                      key_linear |-> <<embed_size, embed_size>>,
                      value_linear |-> <<embed_size, embed_size>>,
                      fc_out |-> <<embed_size, embed_size>>]},
          error |-> "none"]

CallMultiHeadAttention ==
    /\ pc = "idle"
    /\ \E embed_size \in 0..MaxEmbed, num_heads \in 0..MaxHeads :
          LET r == MultiHeadAttentionInit(embed_size, num_heads)
          IN  mha' = [embed_size |-> embed_size, num_heads |-> num_heads,
                      object |-> r.object, error |-> r.error]
    /\ pc' = "mha_done"
    /\ UNCHANGED <<model, dec, pad, train, trans>>

\* ------------------------------------------------------------ train_model
NaN == [sum |-> 0, count |-> 0]

TrainIdle ==
    [num_epochs |-> 0, num_batches |-> 0, epoch |-> 0, batch |-> 0,
     src |-> <<>>, tgt |-> <<>>, tgt_input |-> <<>>, tgt_output |-> <<>>,
     outputs |-> <<>>, loss |-> NaN, grads |-> "none",
     nForward |-> 0, nLoss |-> 0, nZeroGrad |-> 0, nBackward |-> 0, nStep |-> 0,
     error |-> "none"]

\* the batches a dataloader yields: rows of one length (collate_fn pads them)
TrainTokens == {PAD, UNK}
TgtRows(L) == {t \in SeqsUpTo(TrainTokens, L) : Len(t) = L}
Batches ==
    UNION { {<<a>> : a \in TgtRows(L)} \cup {<<a, b>> : a, b \in TgtRows(L)} : L \in 0..MaxTgtLen }

\* tgt[:, :-1]
AllButLast(rows) == [r \in 1..Len(rows) |-> SliceTo(rows[r], -1)]

\* mutant: the targets are not shifted
AllButFirstUnshifted(rows) == [r \in 1..Len(rows) |-> SliceTo(rows[r], -1)]

\* tgt[:, 1:]
AllButFirst(rows) == [r \in 1..Len(rows) |-> SubSeq(rows[r], 2, Len(rows[r]))]

\* model(src, tgt_input): the forward pass, row by row
ForwardBatch(m, src, tgt_input) ==
    [r \in 1..Len(tgt_input) |-> Forward(m, src[r], tgt_input[r])]

\* x.view(-1, ...): the rows laid one after another
RECURSIVE Flatten(_, _)
Flatten(rows, n) == IF n = 0 THEN <<>> ELSE Flatten(rows, n - 1) \o rows[n]

MaxLogit(l) == CHOOSE x \in {l[v] : v \in Vocab} : \A v \in Vocab : l[v] <= x

\* the loss of one position: zero when the target has the largest logit
NLL(l, t) == MaxLogit(l) - l[t]

\* nn.CrossEntropyLoss(ignore_index), mean reduction: the sum over the counted
\* positions and their number; no counted position gives NaN
CrossEntropyLoss(ignore_index, logits, targets) ==
    LET counted == [k \in 1..Len(targets) |-> targets[k] # ignore_index]
    IN  [sum   |-> SumTo([k \in 1..Len(targets) |->
                             IF counted[k] THEN NLL(logits[k], targets[k]) ELSE 0],
                         Len(targets)),
         count |-> SumTo([k \in 1..Len(targets) |-> IF counted[k] THEN 1 ELSE 0],
                         Len(targets))]

\* mutant: nn.CrossEntropyLoss() with the library's default ignore_index
criterionDefaultIgnore(logits, targets) == CrossEntropyLoss(-100, logits, targets)

\* criterion = nn.CrossEntropyLoss(ignore_index=0)
criterion(logits, targets) == CrossEntropyLoss(0, logits, targets)

\* optimizer.step(): the parameter values Adam may leave
OptimizerStep(m) == ModelSpace

\* train_model(model, dataloader, optimizer, criterion, num_epochs); model.train()
CallTrainModel ==
    /\ pc = "idle"
    /\ \E num_epochs \in 0..MaxEpochs, num_batches \in 0..MaxBatches :
          train' = [TrainIdle EXCEPT !.num_epochs = num_epochs, !.num_batches = num_batches]
    /\ pc' = "train_epoch"
    /\ UNCHANGED <<model, dec, pad, mha, trans>>

\* for epoch in range(num_epochs): total_loss = 0
TrainEpoch ==
    /\ pc = "train_epoch"
    /\ IF RangeHasNext(train.epoch, train.num_epochs)
       THEN /\ train' = [train EXCEPT !.batch = 0]
            /\ pc' = "train_batch"
       ELSE /\ pc' = "train_done"
            /\ UNCHANGED train
    /\ UNCHANGED <<model, dec, pad, mha, trans>>

\* for src, tgt in dataloader: tgt_input = tgt[:, :-1]; tgt_output = tgt[:, 1:]
TrainBatch ==
    /\ pc = "train_batch"
    /\ RangeHasNext(train.batch, train.num_batches)
    /\ \E tgt \in Batches :
          train' = [train EXCEPT !.src = [r \in 1..Len(tgt) |-> <<UNK, PAD>>],
                                 !.tgt = tgt,
                                 !.tgt_input = AllButLast(tgt),
                                 !.tgt_output = AllButFirst(tgt),
                                 !.outputs = <<>>, !.loss = NaN]
    /\ pc' = "train_forward"
    /\ UNCHANGED <<model, dec, pad, mha, trans>>

\* outputs = model(src, tgt_input)
TrainForward ==
    /\ pc = "train_forward"
    /\ train' = [train EXCEPT !.outputs = ForwardBatch(model, train.src, train.tgt_input),
                              !.nForward = @ + 1]
    /\ pc' = "train_loss"
    /\ UNCHANGED <<model, dec, pad, mha, trans>>

\* loss = criterion(outputs.view(-1, outputs.size(-1)), tgt_output.contiguous().view(-1))
TrainLoss ==
    /\ pc = "train_loss"
    /\ train' = [train EXCEPT
                    !.loss = criterion(Flatten(train.outputs, Len(train.outputs)),
                                       Flatten(train.tgt_output, Len(train.tgt_output))),
                    !.nLoss = @ + 1]
    /\ pc' = "train_zero_grad"
    /\ UNCHANGED <<model, dec, pad, mha, trans>>

\* optimizer.zero_grad()
TrainZeroGrad ==
    /\ pc = "train_zero_grad"
    /\ train' = [train EXCEPT !.grads = "zero", !.nZeroGrad = @ + 1]
    /\ pc' = "train_backward"
    /\ UNCHANGED <<model, dec, pad, mha, trans>>

\* loss.backward()
TrainBackward ==
    /\ pc = "train_backward"
    /\ train' = [train EXCEPT !.grads = "computed", !.nBackward = @ + 1]
    /\ pc' = "train_step"
    /\ UNCHANGED <<model, dec, pad, mha, trans>>

\* what train_model holds between two batches: the batch's tensors are dead once
\* the step is taken, the next iteration binds them anew
BetweenBatches(t) ==
    [t EXCEPT !.src = <<>>, !.tgt = <<>>, !.tgt_input = <<>>, !.tgt_output = <<>>,
              !.outputs = <<>>, !.loss = NaN]

\* mutant: the optimizer steps on every second batch only
TrainStepAccumulating ==
    /\ pc = "train_step"
    /\ IF train.batch % 2 = 1
       THEN /\ model' \in OptimizerStep(model)
            /\ train' = [BetweenBatches(train) EXCEPT !.nStep = @ + 1, !.batch = @ + 1]
       ELSE /\ model' = model
            /\ train' = [BetweenBatches(train) EXCEPT !.batch = @ + 1]
    /\ pc' = "train_batch"
    /\ UNCHANGED <<dec, pad, mha, trans>>

\* optimizer.step(); total_loss += loss.item()
TrainStep ==
    /\ pc = "train_step"
    /\ model' \in OptimizerStep(model)
    /\ train' = [BetweenBatches(train) EXCEPT !.nStep = @ + 1, !.batch = @ + 1]
    /\ pc' = "train_batch"
    /\ UNCHANGED <<dec, pad, mha, trans>>

\* the dataloader is exhausted: print(f"... {total_loss/len(dataloader):.4f}")
TrainEpochEnd ==
    /\ pc = "train_batch"
    /\ ~RangeHasNext(train.batch, train.num_batches)
    /\ IF train.num_batches = 0
       THEN /\ train' = [train EXCEPT !.error = "ZeroDivisionError"]
            /\ pc' = "train_raised"
       ELSE /\ train' = [train EXCEPT !.epoch = @ + 1]
            /\ pc' = "train_epoch"
    /\ UNCHANGED <<model, dec, pad, mha, trans>>

\* ---------------------------------------------------------- greedy_decode
DecIdle ==
    [src_sentence |-> <<>>, max_len |-> 0, start_token_id |-> BOS, end_token_id |-> EOS,
     tgt_sequence |-> <<>>, i |-> 0, passes |-> 0, result |-> <<>>]

\* mutant: the argmax is taken at the first output position
NextTokenIdFirstPosition(m, src, tgt) ==
    Only({ ArgMax(output[1]) : output \in {Forward(m, src, tgt)} })

\* output = model(src_sentence, tgt_sequence); output[:, -1, :].argmax(dim=-1).item()
NextTokenId(m, src, tgt) ==
    Only({ ArgMax(output[Len(output)]) : output \in {Forward(m, src, tgt)} })

\* torch.cat([tgt_sequence, [[next_token_id]]], dim=1)
Cat(tgt, tok) == tgt \o <<tok>>

\* mutant: the loop breaks on every token but the end token
BreakOnEndInverted(tok, end) == tok # end

\* mutant: the loop never breaks
BreakOnEndMissing(tok, end) == FALSE

\* if next_token_id == end_token_id: break
BreakOnEnd(tok, end) == tok = end

\* greedy_decode(model, src_sentence, max_len, start_token_id, end_token_id), up to the loop
CallGreedyDecode ==
    /\ pc = "idle"
    /\ \E src \in Sources, n \in 0..MaxMaxLen, se \in {<<BOS, EOS>>, <<BOS, UNK>>, <<EOS, EOS>>} :
          dec' = [DecIdle EXCEPT !.src_sentence = src, !.max_len = n,
                                 !.start_token_id = se[1], !.end_token_id = se[2],
                                 !.tgt_sequence = <<se[1]>>]
    /\ pc' = "decode_loop"
    /\ UNCHANGED <<model, pad, mha, train, trans>>

\* mutant: the loop body also takes an optimizer step
DecodeStepTraining ==
    /\ pc = "decode_loop"
    /\ RangeHasNext(dec.i, dec.max_len)
    /\ \E next_token_id \in {NextTokenId(model, dec.src_sentence, dec.tgt_sequence)} :
           /\ dec' = [dec EXCEPT !.tgt_sequence = Cat(dec.tgt_sequence, next_token_id),
                                 !.i = @ + 1, !.passes = @ + 1]
           /\ pc' = IF BreakOnEnd(next_token_id, dec.end_token_id)
                    THEN "decode_return" ELSE "decode_loop"
    /\ model' \in OptimizerStep(model)
    /\ UNCHANGED <<pad, mha, train, trans>>

\* one iteration of the loop body
DecodeStep ==
    /\ pc = "decode_loop"
    /\ RangeHasNext(dec.i, dec.max_len)
    /\ \E next_token_id \in {NextTokenId(model, dec.src_sentence, dec.tgt_sequence)} :
           /\ dec' = [dec EXCEPT !.tgt_sequence = Cat(dec.tgt_sequence, next_token_id),
                                 !.i = @ + 1, !.passes = @ + 1]
           /\ pc' = IF BreakOnEnd(next_token_id, dec.end_token_id)
                    THEN "decode_return" ELSE "decode_loop"
    /\ UNCHANGED <<model, pad, mha, train, trans>>

\* range(max_len) is exhausted
DecodeLoopEnd ==
    /\ pc = "decode_loop"
    /\ ~RangeHasNext(dec.i, dec.max_len)
    /\ pc' = "decode_return"
    /\ UNCHANGED <<model, dec, pad, mha, train, trans>>

\* return tgt_sequence.squeeze(0).tolist()
DecodeReturn ==
    /\ pc = "decode_return"
    /\ dec' = [dec EXCEPT !.result = dec.tgt_sequence]
    /\ pc' = "decode_done"
    /\ UNCHANGED <<model, pad, mha, train, trans>>

\* ------------------------------------------------ translate_validation_data
\* active: translate_validation_data is running, and is the caller of greedy_decode
TransIdle ==
    [active |-> FALSE, val_sentences |-> <<>>, k |-> 0, encoded_sentence |-> <<>>,
     translations |-> <<>>]

\* the validation sentences, each as the ids tokenizer_src.encode gives it
ValSources == {<<UNK>>, <<VocabSize - 1, UNK>>}
ValSentences == SeqsUpTo(ValSources, MaxSentences)

\* src_sentence.to(device).long(): a new tensor of the same ids
ToLong(ids) == [k \in 1..Len(ids) |-> ids[k]]

SpecialTokens == {PAD, UNK, BOS, EOS}

\* tokenizer_tgt.decode(ids, skip_special_tokens=True): the ids left to be spelled out
SkipSpecialTokens(ids) == SelectSeq(ids, LAMBDA t : t \notin SpecialTokens)

\* for key, sentence in val_sentences.items(): k items are done, is there another
ItemsHasNext(k, items) == k < Len(items)

\* translate_validation_data(model, tokenizer_src, tokenizer_tgt, val_sentences);
\* model.eval(); translations = {}
CallTranslateValidationData ==
    /\ pc = "idle"
    /\ \E val_sentences \in ValSentences :
          trans' = [TransIdle EXCEPT !.active = TRUE, !.val_sentences = val_sentences]
    /\ pc' = "translate_loop"
    /\ UNCHANGED <<model, dec, pad, mha, train>>

\* for key, sentence in val_sentences.items(): encoded_sentence = ...;
\* greedy_decode(model, encoded_sentence), up to its loop, with its default arguments
\* (max_len is 50 in the source, the largest max_len here)
TranslateSentence ==
    /\ pc = "translate_loop"
    /\ ItemsHasNext(trans.k, trans.val_sentences)
    /\ \E encoded_sentence \in {trans.val_sentences[trans.k + 1]} :
          /\ trans' = [trans EXCEPT !.encoded_sentence = encoded_sentence]
          /\ dec' = [DecIdle EXCEPT !.src_sentence = ToLong(encoded_sentence),
                                    !.max_len = MaxMaxLen,
                                    !.start_token_id = BOS, !.end_token_id = EOS,
                                    !.tgt_sequence = <<BOS>>]
    /\ pc' = "decode_loop"
    /\ UNCHANGED <<model, pad, mha, train>>

\* translation = tokenizer_tgt.decode(translation_ids, skip_special_tokens=True);
\* translations[key] = translation
TranslateStore ==
    /\ pc = "decode_done"
    /\ trans.active
    /\ trans' = [trans EXCEPT !.translations = Append(@, SkipSpecialTokens(dec.result)),
                              !.k = @ + 1, !.encoded_sentence = <<>>]
    /\ dec' = DecIdle
    /\ pc' = "translate_loop"
    /\ UNCHANGED <<model, pad, mha, train>>

\* return translations
TranslateReturn ==
    /\ pc = "translate_loop"
    /\ ~ItemsHasNext(trans.k, trans.val_sentences)
    /\ trans' = [trans EXCEPT !.active = FALSE]
    /\ pc' = "translate_done"
    /\ UNCHANGED <<model, dec, pad, mha, train>>

\* the caller drops the call's locals
Return ==
    /\ pc \in {"decode_done", "pad_done", "mha_done", "train_done", "train_raised",
               "translate_done"}
    /\ ~trans.active
    /\ pc' = "idle"
    /\ dec' = DecIdle
    /\ pad' = PadIdle
    /\ mha' = MhaIdle
    /\ train' = TrainIdle
    /\ trans' = TransIdle
    /\ UNCHANGED model

Init ==
    /\ pc = "idle"
    /\ model \in ModelSpace
    /\ dec = DecIdle
    /\ pad = PadIdle
    /\ mha = MhaIdle
    /\ train = TrainIdle
    /\ trans = TransIdle

Next ==
    \/ CallPadSequences
    \/ CallMultiHeadAttention
    \/ CallTrainModel
    \/ TrainEpoch
    \/ TrainBatch
    \/ TrainForward
    \/ TrainLoss
    \/ TrainZeroGrad
    \/ TrainBackward
    \/ TrainStep
    \/ TrainEpochEnd
    \/ CallGreedyDecode
    \/ DecodeStep
    \/ DecodeLoopEnd
    \/ DecodeReturn
    \/ CallTranslateValidationData
    \/ TranslateSentence
    \/ TranslateStore
    \/ TranslateReturn
    \/ Return

Spec == Init /\ [][Next]_vars

\* greedy_decode alone, with the loop scheduled until it returns
DecodeFairness ==
    /\ WF_vars(DecodeStep)
    /\ WF_vars(DecodeLoopEnd)
    /\ WF_vars(DecodeReturn)

\* the calls of greedy_decode, one after another
DecodeNext ==
    \/ CallGreedyDecode
    \/ DecodeStep
    \/ DecodeLoopEnd
    \/ DecodeReturn
    \/ Return

DecodeSpec == Init /\ [][DecodeNext]_vars /\ DecodeFairness

\* ----------------------------------------------------------------- claims
DecodePcs == {"decode_loop", "decode_return", "decode_done"}
TrainBatchPcs == {"train_forward", "train_loss", "train_zero_grad", "train_backward", "train_step"}

\* C1 as stated: for max_len >= 1 the returned sequence, BOS included, has at most
\* max_len tokens.
C1_LengthAtMostMaxLen ==
    (pc = "decode_done" /\ dec.max_len >= 1) => Len(dec.result) <= dec.max_len

\* C1, amended: greedy_decode stops at the first step whose argmax is end_token_id,
\* or else after max_len steps; the returned sequence, the start token included, has
\* at most max_len + 1 tokens.
C1_LengthAtMostMaxLenPlusOne ==
    (pc = "decode_done" /\ dec.max_len >= 1) =>
        LET n == Len(dec.result)
        IN  /\ n <= dec.max_len + 1
            /\ \A k \in 2..(n - 1) : dec.result[k] # dec.end_token_id
            /\ n < dec.max_len + 1 => (n >= 2 /\ dec.result[n] = dec.end_token_id)

C1_Witness ==
    /\ pc = "decode_done"
    /\ dec.max_len >= 2
    /\ Len(dec.result) = dec.max_len + 1
    /\ dec.result[Len(dec.result)] # dec.end_token_id

\* C2: every call of greedy_decode returns, after at most max_len forward passes of
\* the model, whatever the model predicts.
C2_DecodeReturns ==
    /\ [](dec.passes <= dec.max_len)
    /\ (pc = "decode_loop") ~> (pc = "decode_done")

C2_Witness ==
    /\ pc = "decode_done"
    /\ dec.max_len >= 2
    /\ dec.passes = dec.max_len
    /\ \A k \in 2..Len(dec.result) : dec.result[k] # dec.end_token_id

\* the model's argmax at the final output position is EOS for this source, whatever
\* prefix over {BOS, EOS} it is given
PredictsEOS(m, src) ==
    \A prefix \in SeqsUpTo({BOS, EOS}, 2) \ {<<>>} :
        ArgMax(Forward(m, src, prefix)[Len(prefix)]) = EOS

\* C3: with start BOS, end EOS and a model that always predicts EOS, greedy_decode
\* runs exactly one forward pass and returns [BOS, EOS], for every max_len >= 1.
C3_AlwaysEOSOneToken ==
    (/\ pc = "decode_done"
     /\ dec.start_token_id = BOS /\ dec.end_token_id = EOS
     /\ dec.max_len >= 1
     /\ PredictsEOS(model, dec.src_sentence))
    => (dec.passes = 1 /\ dec.result = <<BOS, EOS>>)

C3_Witness ==
    /\ pc = "decode_done"
    /\ dec.start_token_id = BOS /\ dec.end_token_id = EOS
    /\ dec.max_len >= 2
    /\ Len(dec.src_sentence) >= 1
    /\ PredictsEOS(model, dec.src_sentence)
    /\ dec.result = <<BOS, EOS>>

\* C4: the decoding state starts as [start token]; every loop step appends exactly
\* one token, the argmax of the model's output at the last target position for
\* (source, current prefix); no other step of the call changes the state; after k
\* steps the state has k + 1 tokens.
C4_AppendOnly ==
    [][ /\ (pc = "idle" /\ pc' = "decode_loop") =>
              (dec'.tgt_sequence = <<dec'.start_token_id>> /\ dec'.i = 0)
        /\ (pc \in DecodePcs /\ pc' \in DecodePcs) =>
              /\ Len(dec'.tgt_sequence) = dec'.i + 1
              /\ IF dec'.i # dec.i
                 THEN /\ dec'.i = dec.i + 1
                      /\ dec'.tgt_sequence =
                            Append(dec.tgt_sequence,
                                   ArgMax(Forward(model, dec.src_sentence,
                                                  dec.tgt_sequence)[Len(dec.tgt_sequence)]))
                 ELSE dec'.tgt_sequence = dec.tgt_sequence
      ]_vars

C4_Witness ==
    /\ pc = "decode_loop"
    /\ dec.i = 2
    /\ Len(dec.tgt_sequence) = 3
    /\ dec.tgt_sequence[2] # dec.tgt_sequence[3]

\* C5: for every row of a batch whose target has L >= 1 tokens, tgt_input is the
\* target without its last token and tgt_output the target without its first:
\* both have L-1 tokens, tgt_input[i] = tgt[i] and tgt_output[i] = tgt[i+1], and
\* the forward pass gives one logit vector per position of tgt_input.
C5_TeacherForcingShift ==
    pc \in TrainBatchPcs =>
        \A r \in 1..Len(train.tgt) :
            LET L == Len(train.tgt[r])
            IN  L >= 1 =>
                  /\ Len(train.tgt_input[r]) = L - 1
                  /\ Len(train.tgt_output[r]) = L - 1
                  /\ \A i \in 1..(L - 1) :
                        /\ train.tgt_input[r][i] = train.tgt[r][i]
                        /\ train.tgt_output[r][i] = train.tgt[r][i + 1]
                  /\ pc # "train_forward" => Len(train.outputs[r]) = L - 1

C5_Witness ==
    /\ pc = "train_loss"
    /\ Len(train.tgt) = 2
    /\ Len(train.tgt[2]) >= 2
    /\ train.tgt[2][1] # train.tgt[2][2]

\* the logit vectors a position may be given instead of its own
AltLogits == {Zeros} \cup {OneHot(t) : t \in Vocab}

\* C6: the loss counts only the positions whose tgt_output token is not PAD:
\* whatever the logits at a position whose target is PAD are changed to, the
\* batch loss is the same.
C6_PadIgnored ==
    pc \in {"train_zero_grad", "train_backward", "train_step"} =>
        LET logits  == Flatten(train.outputs, Len(train.outputs))
            targets == Flatten(train.tgt_output, Len(train.tgt_output))
        IN  /\ train.loss.count = Cardinality({k \in 1..Len(targets) : targets[k] # PAD})
            /\ \A k \in 1..Len(targets) :
                  targets[k] = PAD =>
                      \A alt \in AltLogits :
                          criterion([logits EXCEPT ![k] = alt], targets) = train.loss

C6_Witness ==
    /\ pc = "train_zero_grad"
    /\ train.loss.count >= 1
    /\ train.loss.sum >= 1
    /\ \E r \in 1..Len(train.tgt_output) :
          \E i \in 1..Len(train.tgt_output[r]) : train.tgt_output[r][i] = PAD

\* C7: within a batch the order is forward, loss, zero_grad, backward, step; the
\* step of one batch is done before the forward pass of the next starts; one
\* step is taken per batch, so num_epochs epochs over B batches take
\* num_epochs * B steps.
C7_OneStepPerBatch ==
    /\ train.nStep <= train.nBackward
    /\ train.nBackward <= train.nZeroGrad
    /\ train.nZeroGrad <= train.nLoss
    /\ train.nLoss <= train.nForward
    /\ train.nForward <= train.nStep + 1
    /\ pc = "train_forward" => train.nForward = train.nStep
    /\ pc \in TrainBatchPcs \cup {"train_batch"} =>
          train.nStep = train.epoch * train.num_batches + train.batch
    /\ pc = "train_done" => train.nStep = train.num_epochs * train.num_batches

C7_Witness ==
    /\ pc = "train_done"
    /\ train.num_epochs = 2
    /\ train.num_batches = 2
    /\ train.nStep = 4

\* a batch whose target rows hold no token
ZeroLengthBatch(tgt) == Len(tgt) >= 1 /\ \A r \in 1..Len(tgt) : Len(tgt[r]) = 0

\* C8 as stated: on a zero-length batch the training step is a no-op: no
\* exception is raised and no optimizer step is taken for that batch, the
\* parameters stay as they are.
C8_ZeroLengthBatchNoOp ==
    [][ (pc \in TrainBatchPcs /\ ZeroLengthBatch(train.tgt)) =>
            /\ model' = model
            /\ train'.nStep = train.nStep
            /\ train'.error = "none"
      ]_vars

\* C9: MultiHeadAttention(embed_size, num_heads) with embed_size % num_heads # 0
\* raises and builds no object; whenever an object is built,
\* head_dim * num_heads = embed_size.
C9_DivisibilityEnforced ==
    pc = "mha_done" =>
        /\ (mha.num_heads # 0 /\ mha.embed_size % mha.num_heads # 0) =>
              (mha.object = {} /\ mha.error # "none")
        /\ \A self \in mha.object :
              (mha.error = "none" /\ self.head_dim * self.num_heads = mha.embed_size)

C9_Witness ==
    /\ pc = "mha_done"
    /\ mha.embed_size = 5
    /\ mha.num_heads = 2
    /\ mha.object = {}
    /\ mha.error = "AssertionError"

\* the sequence without its trailing padding
RECURSIVE StripTrailingPad(_)
StripTrailingPad(seq) ==
    IF seq # <<>> /\ seq[Len(seq)] = PAD
    THEN StripTrailingPad(SubSeq(seq, 1, Len(seq) - 1))
    ELSE seq

\* C10: every sequence pad_sequences returns has exactly maxlen tokens: a shorter
\* input is followed by 0s, an input of maxlen tokens or more is cut to its first
\* maxlen; a sequence of at most maxlen tokens that does not end in 0 is what is
\* left of its result when the trailing 0s are dropped.
C10_PadToMaxlen ==
    pc = "pad_done" =>
        /\ Len(pad.result) = Len(pad.sequences)
        /\ \A k \in 1..Len(pad.sequences) :
              LET seq == pad.sequences[k]
                  out == pad.result[k]
              IN  /\ Len(out) = pad.maxlen
                  /\ \A i \in 1..pad.maxlen :
                        out[i] = IF i <= Len(seq) THEN seq[i] ELSE 0
                  /\ (Len(seq) <= pad.maxlen /\ (seq = <<>> \/ seq[Len(seq)] # 0)) =>
                        StripTrailingPad(out) = seq

C10_Witness ==
    /\ pc = "pad_done"
    /\ Len(pad.sequences) = 2
    /\ Len(pad.sequences[1]) < pad.maxlen
    /\ pad.sequences[1] # <<>>
    /\ pad.sequences[1][Len(pad.sequences[1])] # 0
    /\ Len(pad.sequences[2]) > pad.maxlen

TranslatePcs == {"translate_loop", "translate_done"}

\* C11: the model's parameters are written by the optimizer step of train_model
\* alone; no step of greedy_decode or of translate_validation_data changes them,
\* and the source sequence a call of greedy_decode was given stays what it was
\* from the call to the return, sentence after sentence.
C11_OnlyOptimizerWrites ==
    [][ /\ model' # model => (pc = "train_step" /\ pc' = "train_batch")
        /\ (pc \in DecodePcs \cup TranslatePcs) => model' = model
        /\ (pc \in DecodePcs /\ pc' \in DecodePcs) =>
               /\ dec'.src_sentence = dec.src_sentence
               /\ trans'.encoded_sentence = trans.encoded_sentence
        /\ (pc \in DecodePcs /\ trans.active) =>
               /\ dec.src_sentence = trans.val_sentences[trans.k + 1]
               /\ trans.encoded_sentence = trans.val_sentences[trans.k + 1]
        /\ (pc \in DecodePcs \cup TranslatePcs /\ trans.active) =>
               (trans'.active => trans'.val_sentences = trans.val_sentences)
      ]_vars

C11_Witness ==
    /\ pc = "translate_done"
    /\ Len(trans.translations) = 2
    /\ trans.val_sentences[1] # trans.val_sentences[2]
    /\ trans.translations[1] # <<>>

\* C13: when end_token_id differs from start_token_id, the end token occurs in the
\* sequence greedy_decode builds and returns only as its last element: nothing is
\* appended after it, and the loop is at its head after a step only when the token
\* that step appended was not the end token.
C13_EndTokenOnlyLast ==
    /\ (pc \in DecodePcs /\ dec.end_token_id # dec.start_token_id) =>
           \A k \in 1..(Len(dec.tgt_sequence) - 1) : dec.tgt_sequence[k] # dec.end_token_id
    /\ (pc = "decode_done" /\ dec.end_token_id # dec.start_token_id) =>
           \A k \in 1..(Len(dec.result) - 1) : dec.result[k] # dec.end_token_id
    /\ (pc = "decode_loop" /\ dec.i >= 1) =>
           dec.tgt_sequence[Len(dec.tgt_sequence)] # dec.end_token_id

C13_Witness ==
    /\ pc = "decode_done"
    /\ dec.end_token_id # dec.start_token_id
    /\ Len(dec.result) >= 3
    /\ dec.result[Len(dec.result)] = dec.end_token_id

\* the forward pass f is made of the calls the claim C12 describes, and gives logits
BlocksAsOrdered(m, f, logits) ==
    LET N == NumLayers
        enc == EncoderStack(m.encoder_layers, 1, f.src0)
    IN  /\ Len(f.calls) = 2 * N
        /\ \A n \in 1..N :
              LET c == f.calls[n]
                  prev == IF n = 1 THEN f.src0 ELSE f.calls[n - 1].out
              IN  /\ c.stack = "encoder" /\ c.layer = n
                  /\ c.query = prev /\ c.key = prev /\ c.value = prev
                  /\ c.out = TransformerBlock(m.encoder_layers[n], prev, prev, prev)
        /\ enc = f.calls[N].out
        /\ \A n \in 1..N :
              LET c == f.calls[N + n]
                  prev == IF n = 1 THEN f.tgt0 ELSE f.calls[N + n - 1].out
              IN  /\ c.stack = "decoder" /\ c.layer = n
                  /\ c.query = prev /\ c.key = enc /\ c.value = enc
                  /\ c.out = TransformerBlock(m.decoder_layers[n], prev, enc, enc)
        /\ logits = Project(m.fc_out, f.calls[2 * N].out)

\* C12: in the forward pass that gave greedy_decode its last token, the num_layers
\* encoder blocks run first, in order, each with query = key = value = the previous
\* block's output (the embedded source for the first); then the decoder blocks run
\* in order, each with key = value = the last encoder block's output and query = the
\* previous decoder block's output (the embedded target for the first); the logits
\* are fc_out of the last decoder block's output.
C12_EncoderThenDecoder ==
    (pc \in DecodePcs /\ dec.passes >= 1) =>
        \A tgt \in {SubSeq(dec.tgt_sequence, 1, Len(dec.tgt_sequence) - 1)} :
            \A logits \in {Forward(model, dec.src_sentence, tgt)} :
                /\ BlocksAsOrdered(model, ForwardCalls(model, dec.src_sentence, tgt), logits)
                /\ dec.tgt_sequence[Len(dec.tgt_sequence)] = ArgMax(logits[Len(logits)])

\* a forward pass whose decoder is told apart from the alternatives: the last encoder
\* output is neither the first block's nor the embedded source nor the target
C12_Witness ==
    /\ pc = "decode_return"
    /\ dec.passes >= 2
    /\ LET f == ForwardCalls(model, dec.src_sentence,
                             SubSeq(dec.tgt_sequence, 1, Len(dec.tgt_sequence) - 1))
       IN  /\ f.calls[NumLayers].out # f.calls[1].out
           /\ f.calls[NumLayers].out # f.src0
           /\ f.calls[NumLayers].out # f.tgt0
           /\ f.calls[NumLayers + 1].out # f.tgt0
           /\ f.calls[2 * NumLayers].out # f.calls[NumLayers + 1].out

\* the tokens the other positions of an alternative target are filled with
AltTargetTokens == {PAD, VocabSize - 1}

\* the target sequences as long as tgt that hold tgt's token at position i
TargetsAgreeingAt(tgt, i) ==
    { [k \in 1..Len(tgt) |-> IF k = i THEN tgt[i] ELSE other[k]] :
        other \in [1..Len(tgt) -> AltTargetTokens] }

\* C14: greedy_decode calls the model in eval mode and without masks.  For the
\* sequence the loop has built, the logits at every target position i are those of
\* every other target sequence of the same length with the same token at i, for the
\* same source; and every token the loop appended is the argmax the model gives for
\* any target of that step's length that ends in the token appended last.
C14_LogitsPositionWise ==
    pc = "decode_return" =>
        \A tgt \in {dec.tgt_sequence} :
            /\ \A logits \in {Forward(model, dec.src_sentence, tgt)} :
                  \A i \in 1..Len(tgt) :
                      \A alt \in TargetsAgreeingAt(tgt, i) :
                          Forward(model, dec.src_sentence, alt)[i] = logits[i]
            /\ \A n \in 1..(Len(tgt) - 1) :
                  \A alt \in TargetsAgreeingAt(SubSeq(tgt, 1, n), n) :
                      NextTokenId(model, dec.src_sentence, alt) = tgt[n + 1]

\* a decoded sequence of three generated tokens whose logits at the last position
\* are not those of the position before, and whose alternatives differ from it
C14_Witness ==
    /\ pc = "decode_return"
    /\ Len(dec.tgt_sequence) >= 4
    /\ \E alt \in TargetsAgreeingAt(dec.tgt_sequence, Len(dec.tgt_sequence)) :
          alt # dec.tgt_sequence
    /\ LET logits == Forward(model, dec.src_sentence, dec.tgt_sequence)
       IN  /\ logits[Len(logits)] # logits[Len(logits) - 1]
           /\ \E src \in Sources :
                 /\ Len(src) = Len(dec.src_sentence)
                 /\ Forward(model, src, dec.tgt_sequence)[1] # logits[1]

====
